---- MODULE Spec2Model ----
(***************************************************************************)
(* Model of the ontology import (rdfimport.py) and of the JSON data-model  *)
(* ingestion (store-entity.py).                                            *)
(*                                                                         *)
(* Strings are sequences of characters.  The fixed text of a statement     *)
(* template is kept as one multi-character element; the characters that    *)
(* matter to the store's lexer (the quote and the backslash) are always    *)
(* single elements.                                                        *)
(***************************************************************************)
EXTENDS Integers, Sequences, FiniteSets, TLC

VARIABLES
    prog,       \* which script runs: "rdfimport", "store_entity" or "permute"
    run,        \* "first" or "second" invocation of the script
    g,          \* the parsed rdflib.Graph: a set of triples <<s, p, o>>
    data_model, \* store-entity.py: the fetched JSON document, or NoModel
    pc,         \* position of the running script
    queries,    \* cypher_queries / create_queries
    db,         \* "unset", "Memgraph" (connected and cleared) or "None"
    i,          \* position of the running for loop
    successful_creations,
    model_id,   \* store-entity.py: id of the DataModel node
    summary,    \* the printed tally
    reported,   \* "Failed to connect to Memgraph or clear data" was printed
    nodes,      \* the store: nodes
    edges,      \* the store: relationships
    attempts,   \* history: the statements handed to the store in this run
    first       \* history: the outcome of the first completed import

vars == <<prog, run, g, data_model, pc, queries, db, i, successful_creations,
          model_id, summary, reported, nodes, edges, attempts, first>>

-----------------------------------------------------------------------------
(* Bounds *)

MaxTriples    == 3   \* triples of an ontology (rule checks)
MaxRunTriples == 3   \* triples of an ontology that is imported into the store
MaxTwiceTriples == 2 \* triples of an ontology that is imported twice
MaxDims       == 2   \* dimensions of a data model
MaxProps      == 1   \* properties of a data model

-----------------------------------------------------------------------------
(* RDF terms.  rdflib terms are str subclasses: URIRef, BNode, Literal.     *)

URIRef(s)  == [t |-> "uri",   s |-> s]
BNode(s)   == [t |-> "bnode", s |-> s]
Literal(s) == [t |-> "lit",   s |-> s]

IsBNode(x) == x.t = "bnode"

RDF_type           == "rdf:type"
RDFS_label         == "rdfs:label"
RDFS_subClassOf    == "rdfs:subClassOf"
RDFS_subPropertyOf == "rdfs:subPropertyOf"
RDFS_domain        == "rdfs:domain"
RDFS_range         == "rdfs:range"

RDFS_Class           == URIRef(<<"rdfs:Class">>)
OWL_Class            == URIRef(<<"owl:Class">>)
OWL_ObjectProperty   == URIRef(<<"owl:ObjectProperty">>)
OWL_DatatypeProperty == URIRef(<<"owl:DatatypeProperty">>)
RDF_Property         == URIRef(<<"rdf:Property">>)

None == [t |-> "none", s |-> <<>>]

-----------------------------------------------------------------------------
(* Triple Store accessors of rdflib.Graph.  The graph is a set of triples;  *)
(* the order in which it is iterated is not fixed by the model: every      *)
(* enumeration of the matching triples is a possible iteration.            *)

Subjects(gr, p, o) == {tr[1] : tr \in {x \in gr : x[2] = p /\ x[3] = o}}

SubjectObjects(gr, p) == {<<tr[1], tr[3]>> : tr \in {x \in gr : x[2] = p}}

Objects(gr, s, p) == {tr[3] : tr \in {x \in gr : x[1] = s /\ x[2] = p}}

\* g.value(subject, predicate): None when there is no such triple
Value(gr, s, p) ==
    IF Objects(gr, s, p) = {} THEN None ELSE CHOOSE o \in Objects(gr, s, p) : TRUE

\* every order in which a finite set can be iterated
Iterations(S) ==
    {f \in [1..Cardinality(S) -> S] : \A x \in S : \E k \in DOMAIN f : f[k] = x}

RECURSIVE MapSeq(_, _)
MapSeq(F(_), sq) ==
    IF sq = <<>> THEN <<>> ELSE <<F(Head(sq))>> \o MapSeq(F, Tail(sq))

-----------------------------------------------------------------------------
(* Python helpers *)

Max(S) == CHOOSE x \in S : \A y \in S : y <= x

\* s.split('/')[-1]
LastSegment(s) ==
    LET slashes == {k \in 1..Len(s) : s[k] = "/"}
    IN  IF slashes = {} THEN s ELSE SubSeq(s, Max(slashes) + 1, Len(s))

\* truth value of g.value(...): None is false, a Literal is false when empty
Truthy(x) == x /= None /\ x.s /= <<>>

\* label = g.value(subject, RDFS.label) or subject.split('/')[-1]
DisplayLabel(gr, subject) ==
    IF Truthy(Value(gr, subject, RDFS_label))
    THEN Value(gr, subject, RDFS_label).s
    ELSE LastSegment(subject.s)

-----------------------------------------------------------------------------
(* Statements.  An abstract statement keeps the terms that were            *)
(* interpolated into the f-string; Render gives its text.                  *)

CreateClass(subject, label) ==
    [op |-> "CREATE", kind |-> "Class", uri |-> subject, label |-> label,
     ptype |-> "", rel |-> "", dkind |-> "", duri |-> None]

CreateProperty(prop, label, prop_type) ==
    [op |-> "CREATE", kind |-> "Property", uri |-> prop, label |-> label,
     ptype |-> prop_type, rel |-> "", dkind |-> "", duri |-> None]

MatchMerge(skind, src, rel, dkind, dst) ==
    [op |-> "MERGE", kind |-> skind, uri |-> src, label |-> <<>>,
     ptype |-> "", rel |-> rel, dkind |-> dkind, duri |-> dst]

-----------------------------------------------------------------------------
(* The seven extraction rules.  Each gives the set of lists the Python     *)
(* function can return, one per iteration order of the graph.              *)

NotBlankSubject(x) == ~IsBNode(x)

\* variant: only the subject is tested for a blank node
NotBlankPairSubjectOnly(pr) == ~IsBNode(pr[1])
NotBlankPair(pr)   == ~(IsBNode(pr[1]) \/ IsBNode(pr[2]))

ClassesOfType(gr, class_type) ==
    LET Stmt(subject) == CreateClass(subject, DisplayLabel(gr, subject))
    IN  {MapSeq(Stmt, SelectSeq(it, NotBlankSubject)) :
            it \in Iterations(Subjects(gr, RDF_type, class_type))}

\* variant: a subject that is already an rdfs:Class is not emitted again
process_named_classes_dedup(gr) ==
    {a \o SelectSeq(b, LAMBDA q : \A k \in DOMAIN a : a[k].uri /= q.uri) :
        a \in ClassesOfType(gr, RDFS_Class), b \in ClassesOfType(gr, OWL_Class)}

process_named_classes(gr) ==
    {a \o b : a \in ClassesOfType(gr, RDFS_Class), b \in ClassesOfType(gr, OWL_Class)}

EdgesFor(gr, predicate, skind, rel, dkind) ==
    LET Stmt(pr) == MatchMerge(skind, pr[1], rel, dkind, pr[2])
    IN  {MapSeq(Stmt, SelectSeq(it, NotBlankPair)) :
            it \in Iterations(SubjectObjects(gr, predicate))}

\* variant: the parent is matched as a Property
process_class_hierarchies_kind(gr) ==
    EdgesFor(gr, RDFS_subClassOf, "Class", "SUBCLASS", "Property")

process_class_hierarchies(gr) ==
    EdgesFor(gr, RDFS_subClassOf, "Class", "SUBCLASS", "Class")

process_properties(gr, rdf_type, prop_type) ==
    LET Stmt(prop) == CreateProperty(prop, DisplayLabel(gr, prop), prop_type)
    IN  {MapSeq(Stmt, SelectSeq(it, NotBlankSubject)) :
            it \in Iterations(Subjects(gr, RDF_type, rdf_type))}

process_property_hierarchies(gr) ==
    EdgesFor(gr, RDFS_subPropertyOf, "Property", "SUBPROPERTY", "Property")

process_domain_and_range(gr) ==
    {a \o b : a \in EdgesFor(gr, RDFS_domain, "Property", "DOMAIN", "Class"),
              b \in EdgesFor(gr, RDFS_range, "Property", "RANGE", "Class")}

parse_ttl_to_cypher(gr) ==
    {q1 \o q2 \o q3 \o q4 \o q5 \o q6 \o q7 :
        q1 \in process_named_classes(gr),
        q2 \in process_class_hierarchies(gr),
        q3 \in process_properties(gr, OWL_ObjectProperty, "ObjectProperty"),
        q4 \in process_properties(gr, OWL_DatatypeProperty, "DatatypeProperty"),
        q5 \in process_properties(gr, RDF_Property, "Property"),
        q6 \in process_property_hierarchies(gr),
        q7 \in process_domain_and_range(gr)}


-----------------------------------------------------------------------------
(* Statement text, as the f-strings lay it out: fixed text, and each       *)
(* attribute between the quotes the template puts around it.               *)

Chunk(c)  == <<c>>
Quoted(s) == <<"'">> \o s \o <<"'">>

\* the text rdfimport.py builds: attributes are interpolated as they are
Render(q) ==
    IF q.op = "CREATE" /\ q.kind = "Class"
    THEN Chunk("CREATE (:Class {uri: ") \o Quoted(q.uri.s) \o Chunk(", label: ")
            \o Quoted(q.label) \o Chunk("})")
    ELSE IF q.op = "CREATE"
    THEN Chunk("CREATE (:Property {uri: ") \o Quoted(q.uri.s) \o Chunk(", label: ")
            \o Quoted(q.label) \o Chunk(", type: ") \o Quoted(<<q.ptype>>)
            \o Chunk("})")
    ELSE Chunk("MATCH (") \o Chunk(q.kind) \o Chunk(" {uri: ") \o Quoted(q.uri.s)
            \o Chunk("}), (") \o Chunk(q.dkind) \o Chunk(" {uri: ")
            \o Quoted(q.duri.s) \o Chunk("}) MERGE ") \o Chunk(q.rel)

\* store-entity.py: s.replace("'", "\\'")
RECURSIVE escape_quotes(_)
escape_quotes(s) ==
    IF s = <<>> THEN <<>>
    ELSE (IF Head(s) = "'" THEN <<"\\", "'">> ELSE <<Head(s)>>) \o escape_quotes(Tail(s))

\* model_query of create_data_model
RenderModel(dm) ==
    Chunk("CREATE (model:DataModel {uri: ") \o Quoted(escape_quotes(dm.uri))
        \o Chunk(", description: ") \o Quoted(escape_quotes(dm.description))
        \o Chunk("}) RETURN id(model) AS modelId;")

(* The store's lexer: a quote opens a string literal, which runs to the     *)
(* next quote that no backslash escapes; inside it a backslash escapes a   *)
(* quote or a backslash.                                                   *)

Txt(c) == [k |-> "txt", v |-> <<c>>]
Str(s) == [k |-> "str", v |-> s]
LexError == [k |-> "error", v |-> <<>>]

RECURSIVE LexFrom(_, _, _, _, _)
LexFrom(text, p, inStr, cur, out) ==
    IF p > Len(text) THEN (IF inStr THEN out \o <<LexError>> ELSE out)
    ELSE IF ~inStr
    THEN IF text[p] = "'"
         THEN LexFrom(text, p + 1, TRUE, <<>>, out)
         ELSE LexFrom(text, p + 1, FALSE, <<>>, out \o <<Txt(text[p])>>)
    ELSE IF text[p] = "\\"
    THEN IF p + 1 <= Len(text) /\ text[p + 1] \in {"'", "\\"}
         THEN LexFrom(text, p + 2, TRUE, cur \o <<text[p + 1]>>, out)
         ELSE out \o <<LexError>>
    ELSE IF text[p] = "'"
    THEN LexFrom(text, p + 1, FALSE, <<>>, out \o <<Str(cur)>>)
    ELSE LexFrom(text, p + 1, TRUE, cur \o <<text[p]>>, out)

Lex(text) == LexFrom(text, 1, FALSE, <<>>, <<>>)

\* what the text of q is read as when every attribute is read back whole
Intended(q) ==
    IF q.op = "CREATE" /\ q.kind = "Class"
    THEN <<Txt("CREATE (:Class {uri: "), Str(q.uri.s), Txt(", label: "),
           Str(q.label), Txt("})")>>
    ELSE IF q.op = "CREATE"
    THEN <<Txt("CREATE (:Property {uri: "), Str(q.uri.s), Txt(", label: "),
           Str(q.label), Txt(", type: "), Str(<<q.ptype>>), Txt("})")>>
    ELSE <<Txt("MATCH ("), Txt(q.kind), Txt(" {uri: "), Str(q.uri.s), Txt("}), ("),
           Txt(q.dkind), Txt(" {uri: "), Str(q.duri.s), Txt("}) MERGE "), Txt(q.rel)>>

IntendedModel(dm) ==
    <<Txt("CREATE (model:DataModel {uri: "), Str(dm.uri), Txt(", description: "),
      Str(dm.description), Txt("}) RETURN id(model) AS modelId;")>>

-----------------------------------------------------------------------------
(* The store.  A node is named by the statement that created it (the run   *)
(* and the position in the statement list); the store's own ids are opaque.*)

Node(id, q) == [id |-> id, kind |-> q.kind, uri |-> q.uri.s, label |-> q.label,
                ptype |-> q.ptype]

\* variant: the node label is not part of the pattern
MatchAnyLabel(ns, kind, uri) == {n \in ns : n.uri = uri}

\* MATCH (x:kind {uri: 'uri'})
Match(ns, kind, uri) == {n \in ns : n.kind = kind /\ n.uri = uri}

\* CREATE (:kind {...})
ApplyCreate(ns, id, q) == ns \cup {Node(id, q)}

\* MATCH (a:..), (b:..) MERGE (a)-[:rel]->(b): one row per pair of matches,
\* and for each row the relationship is created unless it is there
ApplyMerge(ns, es, q) ==
    es \cup {[rel |-> q.rel, src |-> a.id, dst |-> b.id] :
                a \in Match(ns, q.kind, q.uri.s), b \in Match(ns, q.dkind, q.duri.s)}

\* db.execute(query) on a store that accepts the statement
StoreNodes(ns, es, id, q) == IF q.op = "CREATE" THEN ApplyCreate(ns, id, q) ELSE ns
StoreEdges(ns, es, id, q) == IF q.op = "MERGE" THEN ApplyMerge(ns, es, q) ELSE es

\* the store after the statements qs[p..] are all accepted in list order
RECURSIVE RunAll(_, _, _, _)
RunAll(ns, es, qs, p) ==
    IF p > Len(qs) THEN [nodes |-> ns, edges |-> es]
    ELSE RunAll(StoreNodes(ns, es, <<"first", p>>, qs[p]),
                StoreEdges(ns, es, <<"first", p>>, qs[p]), qs, p + 1)

Range(sq) == {sq[k] : k \in DOMAIN sq}
BagOf(sq) == [x \in Range(sq) |-> Cardinality({k \in DOMAIN sq : sq[k] = x})]

-----------------------------------------------------------------------------
(* Inputs *)

ClassTypes    == {RDFS_Class, OWL_Class}
PropertyTypes == {OWL_ObjectProperty, OWL_DatatypeProperty, RDF_Property}
Relations     == {RDFS_subClassOf, RDFS_subPropertyOf, RDFS_domain, RDFS_range}

TypeTriples(S)      == {<<s, RDF_type, ty>> : s \in S, ty \in ClassTypes \cup PropertyTypes}
RelationTriples(S)  == {<<s, p, o>> : s \in S, p \in Relations, o \in S}
LabelTriples(S, Ls) == {<<s, RDFS_label, Literal(l)>> : s \in S, l \in Ls}

\* ontologies over two named resources and one blank node
ParseTerms   == {URIRef(<<"a">>), URIRef(<<"b">>), BNode(<<"_:1">>)}
ParseTriples == TypeTriples(ParseTerms) \cup RelationTriples(ParseTerms)

\* labelled resources: an IRI without '/', one with a last segment, one that
\* ends in '/', and a blank node; labels that are empty, plain, or hold a quote
LabelTerms     == {URIRef(<<"x">>), URIRef(<<"n", "/", "A">>), URIRef(<<"n", "/">>),
                   BNode(<<"_:1">>)}
Labels         == {<<>>, <<"L">>, <<"D", "'", "s">>}
LabelledTriples == TypeTriples(LabelTerms) \cup LabelTriples(LabelTerms, Labels)

\* ontologies that are imported into the store
RunTerms   == {URIRef(<<"a">>), URIRef(<<"b">>)}
RunTriples == TypeTriples(RunTerms) \cup RelationTriples(RunTerms)

\* a resource has at most one rdfs:label
OneLabel(gr) ==
    \A t1 \in gr, t2 \in gr :
        (t1[2] = RDFS_label /\ t2[2] = RDFS_label /\ t1[1] = t2[1]) => t1 = t2

\* JSON data models: dimensions 1..n in document order, and for each property
\* the list of dimension names of its shape
NoModel == [uri |-> <<>>, description |-> <<>>, dimensions |-> <<>>,
            properties |-> <<>>, present |-> FALSE]
Shapes == {<<>>} \cup {<<d>> : d \in 1..MaxDims}
              \cup {<<d, e>> : d \in 1..MaxDims, e \in 1..MaxDims}
SeqsUpTo(S, n) == UNION {[1..m -> S] : m \in 0..n}
Descriptions == {<<"p">>, <<"o", "'", "s">>, <<"\\", "'">>}
DataModels ==
    {[uri |-> <<"u">>, description |-> d, dimensions |-> [k \in 1..n |-> k],
      properties |-> ps, present |-> TRUE] :
        d \in Descriptions, n \in 0..MaxDims, ps \in SeqsUpTo(Shapes, MaxProps)}

NoSummary == [total |-> -1, succeeded |-> -1, failed |-> -1]
NoFirst   == [done |-> FALSE, nodes |-> 0, edges |-> 0, accepted |-> <<>>]

-----------------------------------------------------------------------------
(* rdfimport.py *)

rdf_locals == <<queries, db, i, successful_creations, summary, reported>>
se_state   == <<data_model, model_id>>
store      == <<nodes, edges>>

\* g.parse(ttl_file_path): one more triple of the file is in the graph
Load(universe, bound) ==
    /\ pc = "input"
    /\ Cardinality(g) < bound
    /\ \E tr \in universe \ g :
          /\ OneLabel(g \cup {tr})
          /\ g' = g \cup {tr}
    /\ UNCHANGED <<prog, run, pc, rdf_locals, se_state, store, attempts, first>>

LoadTriple   == Load(ParseTriples, MaxTriples)
LoadLabelled == Load(LabelledTriples, MaxTriples)
LoadOntology == prog = "rdfimport" /\ Load(RunTriples, MaxRunTriples)
LoadSmall    == Load(RunTriples, MaxTwiceTriples)

\* cypher_queries = parse_ttl_to_cypher(ttl_file_path)
ParseTtl ==
    /\ prog = "rdfimport"
    /\ pc \in {"input", "start"}
    /\ queries' \in parse_ttl_to_cypher(g)
    /\ pc' = "connect"
    /\ UNCHANGED <<prog, run, g, db, i, successful_creations, summary, reported,
                   se_state, store, attempts, first>>

\* variant: nothing is deleted
DetachDeleteNothing(S) == S

\* MATCH (n) DETACH DELETE n
DetachDeleteAll(S) == {}

\* db = Memgraph(); db.execute("MATCH (n) DETACH DELETE n;") without exception
ConnectOk ==
    /\ prog = "rdfimport"
    /\ pc = "connect"
    /\ db' = "Memgraph"
    /\ nodes' = DetachDeleteAll(nodes)
    /\ edges' = DetachDeleteAll(edges)
    /\ successful_creations' = 0
    /\ i' = 1
    /\ pc' = "loop"
    /\ UNCHANGED <<prog, run, g, queries, summary, reported, se_state, attempts, first>>

\* variant: the except branch prints and does not return
ConnectFailContinue ==
    /\ prog = "rdfimport"
    /\ pc = "connect"
    /\ reported' = TRUE
    /\ db' = "None"
    /\ successful_creations' = 0
    /\ i' = 1
    /\ pc' = "loop"
    /\ UNCHANGED <<prog, run, g, queries, summary, se_state, store, attempts, first>>

\* the except branch: print the failure and return
ConnectFail ==
    /\ prog = "rdfimport"
    /\ pc = "connect"
    /\ reported' = TRUE
    /\ db' = "None"
    /\ pc' = "done"
    /\ UNCHANGED <<prog, run, g, queries, i, successful_creations, summary,
                   se_state, store, attempts, first>>

\* db.execute(query) returns: successful_creations += 1
ExecOk ==
    /\ prog = "rdfimport"
    /\ pc = "loop"
    /\ i <= Len(queries)
    /\ nodes' = StoreNodes(nodes, edges, <<run, i>>, queries[i])
    /\ edges' = StoreEdges(nodes, edges, <<run, i>>, queries[i])
    /\ successful_creations' = successful_creations + 1
    /\ attempts' = Append(attempts, [idx |-> i, ok |-> TRUE])
    /\ i' = i + 1
    /\ UNCHANGED <<prog, run, g, pc, queries, db, summary, reported, se_state, first>>

\* variant: a failure ends the loop
ExecFailBreak ==
    /\ prog = "rdfimport"
    /\ pc = "loop"
    /\ i <= Len(queries)
    /\ attempts' = Append(attempts, [idx |-> i, ok |-> FALSE])
    /\ i' = Len(queries) + 1
    /\ UNCHANGED <<prog, run, g, pc, queries, db, successful_creations, summary,
                   reported, se_state, store, first>>

\* db.execute(query) raises: the failure is printed, the loop goes on
ExecFail ==
    /\ prog = "rdfimport"
    /\ pc = "loop"
    /\ i <= Len(queries)
    /\ attempts' = Append(attempts, [idx |-> i, ok |-> FALSE])
    /\ i' = i + 1
    /\ UNCHANGED <<prog, run, g, pc, queries, db, successful_creations, summary,
                   reported, se_state, store, first>>

Accepted == SelectSeq(attempts, LAMBDA a : a.ok)

\* the summary after the loop
Summary ==
    /\ prog = "rdfimport"
    /\ pc = "loop"
    /\ i > Len(queries)
    /\ summary' = [total |-> Len(queries), succeeded |-> successful_creations,
                   failed |-> Len(queries) - successful_creations]
    /\ first' = IF run = "first"
                THEN [done |-> TRUE, nodes |-> Cardinality(nodes),
                      edges |-> Cardinality(edges),
                      accepted |-> BagOf([k \in DOMAIN Accepted |-> queries[Accepted[k].idx]])]
                ELSE first
    /\ pc' = "done"
    /\ UNCHANGED <<prog, run, g, queries, db, i, successful_creations, reported,
                   se_state, store, attempts>>

\* the script is started again on the same file
Rerun ==
    /\ prog = "rdfimport"
    /\ pc = "done"
    /\ run = "first"
    /\ run' = "second"
    /\ pc' = "start"
    /\ queries' = <<>>
    /\ db' = "unset"
    /\ i' = 0
    /\ successful_creations' = 0
    /\ summary' = NoSummary
    /\ reported' = FALSE
    /\ attempts' = <<>>
    /\ UNCHANGED <<prog, g, se_state, store, first>>

\* the statements of one import applied to the cleared store in any order
ApplyAny ==
    /\ prog = "rdfimport"
    /\ pc = "loop"
    /\ \E k \in DOMAIN queries :
          /\ \A p \in DOMAIN attempts : attempts[p].idx /= k
          /\ nodes' = StoreNodes(nodes, edges, <<run, k>>, queries[k])
          /\ edges' = StoreEdges(nodes, edges, <<run, k>>, queries[k])
          /\ attempts' = Append(attempts, [idx |-> k, ok |-> TRUE])
    /\ UNCHANGED <<prog, run, g, pc, rdf_locals, se_state, first>>

-----------------------------------------------------------------------------
(* store-entity.py *)

se_fixed == <<prog, run, g, queries, successful_creations, summary, first>>

\* fetch_data_model(url): status 200
FetchOk ==
    /\ prog = "store_entity"
    /\ pc = "fetch"
    /\ data_model' \in DataModels
    /\ pc' = "connect"
    /\ UNCHANGED <<se_fixed, db, i, model_id, reported, store, attempts>>

\* fetch_data_model(url): any other status prints and returns None
FetchFail ==
    /\ prog = "store_entity"
    /\ pc = "fetch"
    /\ data_model' = NoModel
    /\ pc' = "connect"
    /\ UNCHANGED <<se_fixed, db, i, model_id, reported, store, attempts>>

\* connect() returns db
SEConnectOk ==
    /\ prog = "store_entity"
    /\ pc = "connect"
    /\ db' = "Memgraph"
    /\ nodes' = DetachDeleteAll(nodes)
    /\ edges' = DetachDeleteAll(edges)
    /\ pc' = "create"
    /\ UNCHANGED <<se_fixed, data_model, i, model_id, reported, attempts>>

\* connect() prints the failure and returns None; the script goes on to
\* create_data_model(None, data_model)
SEConnectFail ==
    /\ prog = "store_entity"
    /\ pc = "connect"
    /\ reported' = TRUE
    /\ db' = "None"
    /\ pc' = "create"
    /\ UNCHANGED <<se_fixed, data_model, i, model_id, store, attempts>>

\* if not data_model: print and return
CreateNoModel ==
    /\ prog = "store_entity"
    /\ pc = "create"
    /\ ~data_model.present
    /\ pc' = "done"
    /\ UNCHANGED <<se_fixed, data_model, db, i, model_id, reported, store, attempts>>

\* db is None: db.execute_and_fetch raises AttributeError, nothing catches it
CreateModelNoDb ==
    /\ prog = "store_entity"
    /\ pc = "create"
    /\ data_model.present
    /\ db = "None"
    /\ pc' = "crashed"
    /\ UNCHANGED <<se_fixed, data_model, db, i, model_id, reported, store, attempts>>

SENode(id, kind, name) ==
    [id |-> id, kind |-> kind, uri |-> name, label |-> <<>>, ptype |-> ""]

\* the DataModel node is created and its id fetched
CreateModelOk ==
    /\ prog = "store_entity"
    /\ pc = "create"
    /\ data_model.present
    /\ db = "Memgraph"
    /\ nodes' = nodes \cup {SENode(<<"model", 0>>, "DataModel", data_model.uri)}
    /\ model_id' = <<"model", 0>>
    /\ attempts' = Append(attempts, [idx |-> <<"model", 0>>, ok |-> TRUE])
    /\ i' = 1
    /\ pc' = "dimensions"
    /\ UNCHANGED <<se_fixed, data_model, db, reported, edges>>

\* the store rejects a statement: the exception leaves create_data_model
SEStatementFail(at, id) ==
    /\ prog = "store_entity"
    /\ pc = at
    /\ data_model.present
    /\ db = "Memgraph"
    /\ attempts' = Append(attempts, [idx |-> id, ok |-> FALSE])
    /\ pc' = "crashed"
    /\ UNCHANGED <<se_fixed, data_model, db, i, model_id, reported, store>>

CreateModelFail == SEStatementFail("create", <<"model", 0>>)

\* CREATE (dimension:Dimension {name: .., description: ..})
DimensionOk ==
    /\ prog = "store_entity"
    /\ pc = "dimensions"
    /\ i <= Len(data_model.dimensions)
    /\ nodes' = nodes \cup {SENode(<<"dimension", i>>, "Dimension",
                                   <<data_model.dimensions[i]>>)}
    /\ attempts' = Append(attempts, [idx |-> <<"dimension", i>>, ok |-> TRUE])
    /\ i' = i + 1
    /\ UNCHANGED <<se_fixed, data_model, db, pc, model_id, reported, edges>>

DimensionFail ==
    /\ i <= Len(data_model.dimensions)
    /\ SEStatementFail("dimensions", <<"dimension", i>>)

DimensionsDone ==
    /\ prog = "store_entity"
    /\ pc = "dimensions"
    /\ i > Len(data_model.dimensions)
    /\ i' = 1
    /\ pc' = "properties"
    /\ UNCHANGED <<se_fixed, data_model, db, model_id, reported, store, attempts>>

\* the rows that are left after the MATCH of the shape's p-th dimension
ShapeRows(ns, shape, p) ==
    \A r \in 1..p : Match(ns, "Dimension", <<shape[r]>>) /= {}

\* MATCH (model) WHERE id(model) = model_id CREATE (prop) .. CREATE
\* (model)-[:HAS_PROPERTY]->(prop), then per dimension of the shape
\* WITH prop MATCH (dimension {name}) CREATE (prop)-[:HAS_DIMENSION]->(dimension)
PropertyOk ==
    /\ prog = "store_entity"
    /\ pc = "properties"
    /\ i <= Len(data_model.properties)
    /\ LET shape   == data_model.properties[i]
           matched == {n \in nodes : n.id = model_id}
       IN  /\ nodes' = IF matched = {} THEN nodes
                       ELSE nodes \cup {SENode(<<"property", i>>, "Property", <<i>>)}
           /\ edges' = IF matched = {} THEN edges
                       ELSE edges
                            \cup {[rel |-> "HAS_PROPERTY", src |-> model_id,
                                   dst |-> <<"property", i>>, at |-> 0]}
                            \cup UNION {
                                 {[rel |-> "HAS_DIMENSION", src |-> <<"property", i>>,
                                   dst |-> d.id, at |-> p] :
                                    d \in Match(nodes, "Dimension", <<shape[p]>>)} :
                                 p \in {r \in 1..Len(shape) : ShapeRows(nodes, shape, r)}}
    /\ attempts' = Append(attempts, [idx |-> <<"property", i>>, ok |-> TRUE])
    /\ i' = i + 1
    /\ UNCHANGED <<se_fixed, data_model, db, pc, model_id, reported>>

PropertyFail ==
    /\ i <= Len(data_model.properties)
    /\ SEStatementFail("properties", <<"property", i>>)

PropertiesDone ==
    /\ prog = "store_entity"
    /\ pc = "properties"
    /\ i > Len(data_model.properties)
    /\ pc' = "done"
    /\ UNCHANGED <<se_fixed, data_model, db, i, model_id, reported, store, attempts>>

-----------------------------------------------------------------------------
(* Specifications *)

InitLocals ==
    /\ run = "first"
    /\ g = {}
    /\ data_model = NoModel
    /\ queries = <<>>
    /\ db = "unset"
    /\ i = 0
    /\ successful_creations = 0
    /\ model_id = <<"none", 0>>
    /\ summary = NoSummary
    /\ reported = FALSE
    /\ nodes = {}
    /\ edges = {}
    /\ attempts = <<>>
    /\ first = NoFirst

\* either script is started
Init ==
    /\ InitLocals
    /\ \/ prog = "rdfimport" /\ pc = "input"
       \/ prog = "store_entity" /\ pc = "fetch"

Next ==
    \/ LoadOntology
    \/ ParseTtl
    \/ ConnectOk
    \/ ConnectFail
    \/ ExecOk
    \/ ExecFail
    \/ Summary
    \/ FetchOk
    \/ FetchFail
    \/ SEConnectOk
    \/ SEConnectFail
    \/ CreateNoModel
    \/ CreateModelNoDb
    \/ CreateModelOk
    \/ CreateModelFail
    \/ DimensionOk
    \/ DimensionFail
    \/ DimensionsDone
    \/ PropertyOk
    \/ PropertyFail
    \/ PropertiesDone

Spec == Init /\ [][Next]_vars

\* the extraction rules on ontologies with blank nodes
InitRules == InitLocals /\ prog = "rdfimport" /\ pc = "input"
NextParse == LoadTriple \/ ParseTtl
SpecParse == InitRules /\ [][NextParse]_vars

\* the extraction rules on labelled resources
NextLabel == LoadLabelled \/ ParseTtl
SpecLabel == InitRules /\ [][NextLabel]_vars

\* one import whose statements reach the cleared store in any order
NextPerm == LoadOntology \/ ParseTtl \/ ConnectOk \/ ApplyAny
SpecPerm == InitRules /\ [][NextPerm]_vars

\* the import run twice in succession on the same file
NextTwice ==
    \/ LoadSmall
    \/ ParseTtl
    \/ ConnectOk
    \/ ConnectFail
    \/ ExecOk
    \/ ExecFail
    \/ Summary
    \/ Rerun
SpecTwice == InitRules /\ [][NextTwice]_vars

-----------------------------------------------------------------------------
(* Properties *)

Count(sq, P(_)) == Cardinality({k \in DOMAIN sq : P(sq[k])})

Parsed == prog = "rdfimport" /\ pc \in {"connect", "loop", "done"}

\* C1: once connect-and-clear has succeeded, the statements reach the store
\* once each and in list order whatever failed before, the counter is the
\* number the store accepted, and the tally has total = succeeded + failed.
C1_FailForward ==
    (prog = "rdfimport" /\ db = "Memgraph") =>
        /\ \A k \in DOMAIN attempts : attempts[k].idx = k
        /\ successful_creations = Len(Accepted)
        /\ pc = "done" =>
              /\ Len(attempts) = Len(queries)
              /\ summary.total = Len(queries)
              /\ summary.succeeded = Len(Accepted)
              /\ summary.total = summary.succeeded + summary.failed

C1_Witness ==
    /\ prog = "rdfimport" /\ pc = "done" /\ db = "Memgraph"
    /\ Len(attempts) = 3
    /\ ~attempts[1].ok /\ attempts[2].ok /\ ~attempts[3].ok

\* C2: when the connection or the clear statement fails, the store gets no
\* statement in that run and is left as it was, and the failure is printed.
C2_AbortBeforeMutation ==
    [][(db' = "None") =>
          (reported' /\ attempts' = <<>> /\ nodes' = nodes /\ edges' = edges)]_vars

C2_Witness == prog = "store_entity" /\ db = "None" /\ pc = "crashed"

\* the same case in rdfimport.py
C2_WitnessImport == prog = "rdfimport" /\ db = "None" /\ pc = "done" /\ queries /= <<>>

\* C3: in create_data_model a rejected dimension or property statement is
\* caught and the statements after it are still applied.
C3_EntityFailForward ==
    (/\ prog = "store_entity"
     /\ \E k \in DOMAIN attempts :
           ~attempts[k].ok /\ attempts[k].idx[1] \in {"dimension", "property"})
    => /\ pc /= "crashed"
       /\ pc = "done" =>
             Len(attempts) = 1 + Len(data_model.dimensions) + Len(data_model.properties)

\* C4: no statement names a blank node, and a subClassOf, subPropertyOf,
\* domain or range triple gives exactly one edge statement from its subject
\* to its object when both are named, and none otherwise.
RelOf(p) ==
    IF p = RDFS_subClassOf THEN "SUBCLASS"
    ELSE IF p = RDFS_subPropertyOf THEN "SUBPROPERTY"
    ELSE IF p = RDFS_domain THEN "DOMAIN" ELSE "RANGE"

C4_NoBlankNodes ==
    Parsed =>
        /\ \A k \in DOMAIN queries :
              /\ ~IsBNode(queries[k].uri)
              /\ queries[k].op = "MERGE" => ~IsBNode(queries[k].duri)
        /\ \A p \in Relations, s \in ParseTerms, o \in ParseTerms :
              Count(queries, LAMBDA q : q.op = "MERGE" /\ q.rel = RelOf(p)
                                        /\ q.uri = s /\ q.duri = o)
                = IF <<s, p, o>> \in g /\ ~IsBNode(s) /\ ~IsBNode(o) THEN 1 ELSE 0

C4_Witness ==
    /\ Parsed
    /\ \E tr \in g : tr[2] = RDF_type /\ IsBNode(tr[1])
    /\ \E tr \in g : tr[2] \in Relations /\ ~IsBNode(tr[1]) /\ IsBNode(tr[3])
    /\ \E tr \in g : tr[2] \in Relations /\ ~IsBNode(tr[1]) /\ ~IsBNode(tr[3])
    /\ Len(queries) = 1

\* C5: a string attribute that holds a single quote is read back from the
\* statement text unchanged.
HasQuote(s) == \E k \in DOMAIN s : s[k] = "'"

C5_RoundTrip ==
    Parsed =>
        \A k \in DOMAIN queries :
            (HasQuote(queries[k].uri.s) \/ HasQuote(queries[k].label))
                => Lex(Render(queries[k])) = Intended(queries[k])

\* the same for the DataModel statement of create_data_model
C5_RoundTripModel ==
    (prog = "store_entity" /\ data_model.present /\ HasQuote(data_model.description))
        => Lex(RenderModel(data_model)) = IntendedModel(data_model)

\* C6: the label of a created node is the resource's rdfs:label when it has
\* one, else the text after the last '/' of its IRI, else the whole IRI.
HasSlash(s) == \E k \in DOMAIN s : s[k] = "/"

C6_DisplayLabel ==
    Parsed =>
        \A k \in DOMAIN queries :
            queries[k].op = "CREATE" =>
                LET R == queries[k].uri
                IN  queries[k].label =
                        IF Objects(g, R, RDFS_label) /= {}
                        THEN (CHOOSE l \in Objects(g, R, RDFS_label) : TRUE).s
                        ELSE IF HasSlash(R.s)
                        THEN LastSegment(R.s)
                        ELSE R.s

\* C7: for a named S the Class statements with uri = S are as many as the
\* type triples that make S an rdfs:Class or an owl:Class.
C7_OnePerTypeTriple ==
    Parsed =>
        \A S \in {x \in ParseTerms : ~IsBNode(x)} :
            Count(queries, LAMBDA q : q.op = "CREATE" /\ q.kind = "Class" /\ q.uri = S)
                = Cardinality({ty \in ClassTypes : <<S, RDF_type, ty>> \in g})

C7_Witness ==
    /\ Parsed
    /\ \E S \in ParseTerms, T \in ParseTerms :
          /\ ~IsBNode(S) /\ ~IsBNode(T) /\ S /= T
          /\ <<S, RDF_type, RDFS_Class>> \in g /\ <<S, RDF_type, OWL_Class>> \in g
          /\ <<T, RDF_type, RDF_Property>> \in g
          /\ Count(queries, LAMBDA q : q.kind = "Class" /\ q.uri = S) = 2

\* C8: after the second of two imports of the same file the store holds as
\* many nodes and as many edges as after the first.
BothRunsDone == run = "second" /\ pc = "done" /\ db = "Memgraph" /\ first.done

AcceptedNow == BagOf([k \in DOMAIN Accepted |-> queries[Accepted[k].idx]])

AllApplied == prog = "rdfimport" /\ pc = "loop" /\ Len(attempts) = Len(queries)

InOrder == RunAll({}, {}, queries, 1)

C9_AnyOrder ==
    AllApplied => (nodes = InOrder.nodes /\ edges = InOrder.edges)

\* an edge statement comes after every create-node statement it can match
Matches(m, c) ==
    /\ m.op = "MERGE" /\ c.op = "CREATE"
    /\ \/ c.kind = m.kind /\ c.uri.s = m.uri.s
       \/ c.kind = m.dkind /\ c.uri.s = m.duri.s

EdgesAfterTheirNodes ==
    \A p \in DOMAIN attempts, r \in DOMAIN attempts :
        p < r => ~Matches(queries[attempts[p].idx], queries[attempts[r].idx])

\* C9 as amended: any order leaves the same nodes, and the same edges when
\* each edge statement comes after the create-node statements it matches.
C9_NodesFirstOrder ==
    AllApplied =>
        /\ nodes = InOrder.nodes
        /\ EdgesAfterTheirNodes => edges = InOrder.edges

C9_Witness ==
    /\ AllApplied /\ EdgesAfterTheirNodes
    /\ Len(attempts) = 3 /\ attempts[1].idx = 2 /\ attempts[2].idx = 1
    /\ edges /= {}

\* C10: the endpoints of every edge statement are created, with the declared
\* kinds, by create-node statements of the same output.
Declared(qs, kind, u) ==
    \E k \in DOMAIN qs : qs[k].op = "CREATE" /\ qs[k].kind = kind /\ qs[k].uri.s = u.s

C10_EndpointsDeclared ==
    Parsed =>
        \A k \in DOMAIN queries :
            queries[k].op = "MERGE" =>
                /\ Declared(queries, queries[k].kind, queries[k].uri)
                /\ Declared(queries, queries[k].dkind, queries[k].duri)

KindsOf(rel) ==
    IF rel = "SUBCLASS" THEN <<"Class", "Class">>
    ELSE IF rel = "SUBPROPERTY" THEN <<"Property", "Property">>
    ELSE <<"Property", "Class">>

HasEdge(q) ==
    \E e \in edges, a \in nodes, b \in nodes :
        /\ e.rel = q.rel /\ e.src = a.id /\ e.dst = b.id
        /\ a.uri = q.uri.s /\ b.uri = q.duri.s

\* C10 as amended: an edge statement matches its endpoints by the declared
\* kinds, and after an import without failures it has created its edge
\* exactly when both endpoint uris are created with those kinds by
\* create-node statements of the same output.
C10_EdgeIffDeclared ==
    Parsed =>
        \A k \in DOMAIN queries :
            queries[k].op = "MERGE" =>
                /\ <<queries[k].kind, queries[k].dkind>> = KindsOf(queries[k].rel)
                /\ (pc = "done" /\ db = "Memgraph" /\ Len(Accepted) = Len(queries)) =>
                      (HasEdge(queries[k]) <=>
                          /\ Declared(queries, queries[k].kind, queries[k].uri)
                          /\ Declared(queries, queries[k].dkind, queries[k].duri))

C10_Witness ==
    /\ prog = "rdfimport" /\ pc = "done" /\ db = "Memgraph"
    /\ Len(Accepted) = Len(queries)
    /\ \E k \in DOMAIN queries :
          /\ queries[k].op = "MERGE" /\ HasEdge(queries[k])
          /\ queries[k].uri /= queries[k].duri

====
